---- MODULE Spec2Model ----
(***************************************************************************)
(* The builtin functions of docs/builtin_functions/prototype.hpp (fn_if,   *)
(* fn_ifs, fn_sum, fn_length, fn_let, fn_lets) as a state machine: a host  *)
(* evaluator picks already-evaluated arguments, calls one builtin, takes   *)
(* the result and returns to idle.  A call that the C++ front end refuses  *)
(* (requires-clause, parameter conversion, ill-formed return statement)    *)
(* ends in pc = "rejected" without any builtin logic having run.           *)
(***************************************************************************)
EXTENDS Integers, Sequences, FiniteSets, TLC

VARIABLES pc, call, result, invoked, values, seen

vars == <<pc, call, result, invoked, values, seen>>

(***************************************************************************)
(* Bounds of the model.                                                    *)
(***************************************************************************)
\* most (condition, value) / (identifier, value) pairs of one fn_ifs / fn_lets call
MaxPairs == 3
\* most arguments of one fn_sum call
MaxArgs == 2
\* most elements of a list argument
MaxListLen == 2
\* most code units of a text argument
MaxText == 2
\* largest value of the model's `int` (INT_MAX of the build, scaled down)
IntMax == 3
\* most pairs / arguments of a call in the specification that keeps a history
HistMax == 1

IntMin == -IntMax - 1

IntRange == IntMin..IntMax

SeqsUpTo(S, n) == UNION {[1..k -> S] : k \in 0..n}

(***************************************************************************)
(* Values: the four alternatives of Any::V, one record shape for all.      *)
(***************************************************************************)
AnyBool(value) == [tag |-> "bool", b |-> value, i |-> 0, s |-> <<>>, l |-> <<>>]

AnyInt(value) == [tag |-> "int", b |-> FALSE, i |-> value, s |-> <<>>, l |-> <<>>]

AnyText(value) == [tag |-> "text", b |-> FALSE, i |-> 0, s |-> value, l |-> <<>>]

AnyList(value) == [tag |-> "list", b |-> FALSE, i |-> 0, s |-> <<>>, l |-> value]

TypeOf(v) == v.tag

NoResult == [kind |-> "none"]

NoCall == [op |-> "none"]

\* a std::variant holding alternative `index`
Variant(index, value) == [kind |-> "variant", index |-> index, value |-> value]

\* a plain int / size_t result
Number(n) == [kind |-> "int", i |-> n]

\* a plain value returned by a continuation
Plain(v) == [kind |-> "value", value |-> v]

(***************************************************************************)
(* fn_if.  The return type is std::variant<T0, T1> and each return         *)
(* statement initialises it through the variant's converting constructor,  *)
(* which picks the alternative by the TYPE of the returned expression: it  *)
(* is ill-formed when that type names more than one alternative.           *)
(***************************************************************************)
VariantFrom(alts, v) ==
    LET m == {j \in 1..Len(alts) : alts[j] = TypeOf(v)}
    IN  IF Cardinality(m) = 1
        THEN [ok |-> TRUE, out |-> Variant((CHOOSE j \in m : TRUE) - 1, v)]
        ELSE [ok |-> FALSE, out |-> NoResult]

\* both return statements are instantiated whatever the condition is
IfWellFormed(then, otherwise) ==
    LET R == <<TypeOf(then), TypeOf(otherwise)>>
    IN  VariantFrom(R, then).ok /\ VariantFrom(R, otherwise).ok

fn_if(condition, then, otherwise) ==
    LET R == <<TypeOf(then), TypeOf(otherwise)>>
    IN  IF condition
        THEN VariantFrom(R, then).out
        ELSE VariantFrom(R, otherwise).out

(***************************************************************************)
(* fn_ifs.  out starts as alternative 0 holding else_; try_at<I> runs for  *)
(* I = 0 .. sizeof...(Pairs) - 1 in order.                                 *)
(***************************************************************************)
try_at_last_wins(I, st, tup) ==
    IF tup[I + 1].first
    THEN [matched |-> TRUE, out |-> Variant(I + 1, tup[I + 1].second)]
    ELSE st

try_at_type_tag(I, st, tup) ==
    IF ~st.matched /\ tup[I + 1].first
    THEN [matched |-> TRUE,
          out |-> Variant(CHOOSE j \in 0..Len(tup) :
                             /\ TypeOf(IF j = 0 THEN st.out.value ELSE tup[j].second)
                                    = TypeOf(tup[I + 1].second)
                             /\ \A h \in 0..(j - 1) :
                                    TypeOf(IF h = 0 THEN st.out.value ELSE tup[h].second)
                                        # TypeOf(tup[I + 1].second),
                          tup[I + 1].second)]
    ELSE st

try_at(I, st, tup) ==
    IF ~st.matched /\ tup[I + 1].first
    THEN [matched |-> TRUE, out |-> Variant(I + 1, tup[I + 1].second)]
    ELSE st

RECURSIVE IfsFold(_, _, _)
IfsFold(I, st, tup) ==
    IF I >= Len(tup) THEN st ELSE IfsFold(I + 1, try_at(I, st, tup), tup)

fn_ifs(pairs, else_) ==
    IfsFold(0, [matched |-> FALSE, out |-> Variant(0, else_)], pairs).out

(***************************************************************************)
(* fn_sum.  `int` is IntMin..IntMax; signed overflow is undefined          *)
(* behaviour, recorded in `ub`: once it has happened the call may return   *)
(* any int.  std::reduce is a GENERALIZED_SUM: the elements may be grouped *)
(* and permuted in any way, so every sub-collection of the list may be an  *)
(* intermediate sum, and one of them leaves the range exactly when the sum *)
(* of the positive or of the negative elements does.                       *)
(***************************************************************************)
SumArgOK(v) ==
    \/ TypeOf(v) = "int"
    \/ /\ TypeOf(v) = "list"
       /\ \A k \in 1..Len(v.l) : TypeOf(v.l[k]) = "int"

RECURSIVE Accumulate(_, _, _)
Accumulate(x, k, keep) ==
    IF k > Len(x) THEN 0
    ELSE (IF keep = "all" \/ (keep = "pos" /\ x[k].i > 0) \/ (keep = "neg" /\ x[k].i < 0)
          THEN x[k].i ELSE 0) + Accumulate(x, k + 1, keep)

reduce(x) ==
    [ub |-> \/ Accumulate(x, 1, "pos") > IntMax
            \/ Accumulate(x, 1, "neg") < IntMin,
     val |-> Accumulate(x, 1, "all")]

sum_one_first_only(v) ==
    IF TypeOf(v) = "int"
    THEN [ub |-> FALSE, val |-> v.i]
    ELSE [ub |-> FALSE, val |-> IF Len(v.l) = 0 THEN 0 ELSE v.l[1].i]

sum_one(v) ==
    IF TypeOf(v) = "int"
    THEN [ub |-> FALSE, val |-> v.i]
    ELSE reduce(v.l)

\* sum += sum_one(value)
AddAssign(sum, one) ==
    [ub |-> sum.ub \/ one.ub \/ (sum.val + one.val) \notin IntRange,
     val |-> sum.val + one.val]

RECURSIVE SumFold(_, _, _)
SumFold(k, sum, vs) ==
    IF k > Len(vs) THEN sum
    ELSE SumFold(k + 1, AddAssign(sum, sum_one(vs[k])), vs)

\* the results the call can return
fn_sum(vs) ==
    LET sum == SumFold(1, [ub |-> FALSE, val |-> 0], vs)
    IN  IF sum.ub THEN {Number(n) : n \in IntRange} ELSE {Number(sum.val)}

(***************************************************************************)
(* fn_length.                                                              *)
(***************************************************************************)
LengthArgOK(v) == TypeOf(v) \in {"text", "list"}

RECURSIVE Leaves(_)
Leaves(v) ==
    IF TypeOf(v) # "list" THEN 1
    ELSE LET RECURSIVE Over(_)
             Over(k) == IF k > Len(v.l) THEN 0 ELSE Leaves(v.l[k]) + Over(k + 1)
         IN  Over(1)

fn_length_flattening(value) ==
    IF TypeOf(value) = "text" THEN Number(Len(value.s)) ELSE Number(Leaves(value))

fn_length(value) ==
    IF TypeOf(value) = "text" THEN Number(Len(value.s)) ELSE Number(Len(value.l))

(***************************************************************************)
(* Continuations, and the implicit conversions of a C++ call.              *)
(***************************************************************************)
Convertible(from, to) == from = to \/ {from, to} \subseteq {"bool", "int"}

Convert(v, to) ==
    IF to = "int"
    THEN AnyInt(IF TypeOf(v) = "bool" THEN (IF v.b THEN 1 ELSE 0) ELSE v.i)
    ELSE IF to = "bool"
    THEN AnyBool(IF TypeOf(v) = "int" THEN v.i # 0 ELSE v.b)
    ELSE v

\* whether expr(xs...) compiles
Invocable(expr, xs) ==
    /\ Len(expr.params) = Len(xs)
    /\ \A k \in 1..Len(xs) : Convertible(TypeOf(xs[k]), expr.params[k])

\* expr(xs...)
Invoke(expr, xs) ==
    LET a == [k \in 1..Len(expr.params) |-> Convert(xs[k], expr.params[k])]
    IN  CASE expr.name = "seven"   -> Plain(AnyInt(7))
          [] expr.name = "add_two" -> Plain(AnyInt(a[1].i + 2))
          [] expr.name = "negate"  -> Plain(AnyBool(~a[1].b))
          [] expr.name = "size"    -> Plain(AnyInt(Len(a[1].s)))
          [] expr.name = "minus"   -> Plain(AnyInt(a[1].i - a[2].i))
          [] expr.name = "select"  -> IF a[3].b THEN Variant(0, a[1]) ELSE Variant(1, a[2])

(***************************************************************************)
(* fn_let and fn_lets.                                                     *)
(***************************************************************************)
fn_let_twice(var, value, expr) ==
    [result |-> Invoke(expr, <<Invoke(expr, <<value>>).value>>), invoked |-> 2]

fn_let(var, value, expr) ==
    [result |-> Invoke(expr, <<value>>), invoked |-> 1]

lets_values_reversed(pairs) ==
    [k \in 1..Len(pairs) |-> pairs[Len(pairs) + 1 - k].second]

\* std::forward_as_tuple(std::get<1>(pairs)...)
lets_values(pairs) == [k \in 1..Len(pairs) |-> pairs[k].second]

(***************************************************************************)
(* The host's argument values.                                             *)
(***************************************************************************)
BranchValues == {AnyBool(FALSE), AnyInt(1), AnyInt(42), AnyText(<<"1", "2", "3">>)}

BranchPairs == [first : BOOLEAN, second : BranchValues]

SumInts == {IntMin, 1, IntMax}

SumArgs(m) ==
    {AnyInt(n) : n \in SumInts}
        \cup {AnyList(l) : l \in SeqsUpTo({AnyInt(n) : n \in SumInts}, m)}
        \cup {AnyText(<<"1">>)}

TextUnits == {"h", "i"}

Elements ==
    {AnyInt(1), AnyBool(TRUE), AnyText(<<"3">>), AnyList(<<>>),
     AnyList(<<AnyInt(1), AnyInt(2)>>)}

LengthArgs(m) ==
    {AnyText(s) : s \in SeqsUpTo(TextUnits, MaxText)}
        \cup {AnyList(l) : l \in SeqsUpTo(Elements, m)}
        \cup {AnyInt(5), AnyBool(TRUE)}

Idents == {"x", "y"}

BoundValues == {AnyInt(1), AnyInt(2), AnyBool(TRUE), AnyBool(FALSE), AnyText(<<"2">>)}

BoundPairs == [first : Idents, second : BoundValues]

Continuations ==
    {[name |-> "seven", params |-> <<>>],
     [name |-> "add_two", params |-> <<"int">>],
     [name |-> "negate", params |-> <<"bool">>],
     [name |-> "size", params |-> <<"text">>],
     [name |-> "minus", params |-> <<"int", "int">>],
     [name |-> "select", params |-> <<"int", "text", "bool">>]}

(***************************************************************************)
(* Actions.                                                                *)
(***************************************************************************)
Init ==
    /\ pc = "idle"
    /\ call = NoCall
    /\ result = NoResult
    /\ invoked = 0
    /\ values = <<>>
    /\ seen = {}

CallIf ==
    /\ pc = "idle"
    /\ \E condition \in BOOLEAN, then \in BranchValues, otherwise \in BranchValues :
          /\ call' = [op |-> "if", condition |-> condition, then |-> then,
                      otherwise |-> otherwise]
          /\ IF IfWellFormed(then, otherwise)
             THEN /\ pc' = "done"
                  /\ result' = fn_if(condition, then, otherwise)
             ELSE /\ pc' = "rejected"
                  /\ result' = NoResult
    /\ UNCHANGED <<invoked, values, seen>>

CallIfs(n) ==
    /\ pc = "idle"
    /\ \E pairs \in SeqsUpTo(BranchPairs, n), else_ \in BranchValues :
          /\ call' = [op |-> "ifs", pairs |-> pairs, else_ |-> else_]
          /\ result' = fn_ifs(pairs, else_)
    /\ pc' = "done"
    /\ UNCHANGED <<invoked, values, seen>>

CallSum(n, m) ==
    /\ pc = "idle"
    /\ \E vs \in SeqsUpTo(SumArgs(m), n) :
          /\ call' = [op |-> "sum", values |-> vs]
          /\ IF \A k \in 1..Len(vs) : SumArgOK(vs[k])
             THEN /\ pc' = "done"
                  /\ \E r \in fn_sum(vs) : result' = r
             ELSE /\ pc' = "rejected"
                  /\ result' = NoResult
    /\ UNCHANGED <<invoked, values, seen>>

CallLength(m) ==
    /\ pc = "idle"
    /\ \E value \in LengthArgs(m) :
          /\ call' = [op |-> "length", value |-> value]
          /\ IF LengthArgOK(value)
             THEN /\ pc' = "done"
                  /\ result' = fn_length(value)
             ELSE /\ pc' = "rejected"
                  /\ result' = NoResult
    /\ UNCHANGED <<invoked, values, seen>>

CallLet ==
    /\ pc = "idle"
    /\ \E var \in Idents, value \in BoundValues, expr \in Continuations :
          /\ call' = [op |-> "let", var |-> var, value |-> value, expr |-> expr]
          /\ IF Invocable(expr, <<value>>)
             THEN /\ pc' = "done"
                  /\ result' = fn_let(var, value, expr).result
                  /\ invoked' = invoked + fn_let(var, value, expr).invoked
             ELSE /\ pc' = "rejected"
                  /\ result' = NoResult
                  /\ invoked' = invoked
    /\ UNCHANGED <<values, seen>>

\* fn_lets, line 148-149: the tuple of the pairs' values
LetsBind(n) ==
    /\ pc = "idle"
    /\ \E pairs \in SeqsUpTo(BoundPairs, n), expr \in Continuations :
          /\ call' = [op |-> "lets", pairs |-> pairs, expr |-> expr]
          /\ IF Invocable(expr, lets_values(pairs))
             THEN /\ pc' = "bound"
                  /\ values' = lets_values(pairs)
             ELSE /\ pc' = "rejected"
                  /\ values' = <<>>
    /\ UNCHANGED <<result, invoked, seen>>

\* fn_lets, line 150: std::apply(expr, values)
LetsApply ==
    /\ pc = "bound"
    /\ pc' = "done"
    /\ result' = Invoke(call.expr, values)
    /\ invoked' = invoked + 1
    /\ UNCHANGED <<call, values, seen>>

\* history: keep one finished invocation to compare later ones with
Remember ==
    /\ pc \in {"done", "rejected"}
    /\ seen = {}
    /\ seen' = {[pc |-> pc, call |-> call, result |-> result]}
    /\ UNCHANGED <<pc, call, result, invoked, values>>

Return ==
    /\ pc \in {"done", "rejected"}
    /\ pc' = "idle"
    /\ call' = NoCall
    /\ result' = NoResult
    /\ invoked' = 0
    /\ values' = <<>>
    /\ UNCHANGED seen

Next ==
    \/ CallIf
    \/ CallIfs(MaxPairs)
    \/ CallSum(MaxArgs, MaxListLen)
    \/ CallLength(MaxListLen)
    \/ CallLet
    \/ LetsBind(MaxPairs)
    \/ LetsApply
    \/ Return

Spec == Init /\ [][Next]_vars

NextHist ==
    \/ CallIf
    \/ CallIfs(HistMax)
    \/ CallSum(HistMax, MaxListLen)
    \/ CallLength(HistMax)
    \/ CallLet
    \/ LetsBind(HistMax)
    \/ LetsApply
    \/ Remember
    \/ Return

SpecHist == Init /\ [][NextHist]_vars

(***************************************************************************)
(* The properties.                                                         *)
(***************************************************************************)
\* the positions of the first pair whose condition is true (none, or one)
FirstTrue(pairs) ==
    {k \in 1..Len(pairs) : pairs[k].first /\ \A j \in 1..(k - 1) : ~pairs[j].first}

\* C1: fn_ifs returns the value of the first pair, scanning left to right,
\* whose condition is true, and the else value when no condition is true
\* (also with no pairs); a later true pair never replaces the selected value.
C1_FirstMatchWins ==
    (pc = "done" /\ call.op = "ifs") =>
        IF FirstTrue(call.pairs) = {}
        THEN result.value = call.else_
        ELSE \A k \in FirstTrue(call.pairs) : result.value = call.pairs[k].second

C1_Witness ==
    /\ pc = "done"
    /\ call.op = "ifs"
    /\ Len(call.pairs) >= 2
    /\ call.pairs[1].first
    /\ call.pairs[2].first
    /\ call.pairs[1].second # call.pairs[2].second
    /\ result.value = call.pairs[1].second

\* C2: the variant fn_ifs returns has index 0 exactly when the else value was
\* selected and index k exactly when the k-th pair was selected, whatever the
\* types of the values are (equal types included).
C2_TagIsPosition ==
    (pc = "done" /\ call.op = "ifs") =>
        /\ result.index = 0 <=> FirstTrue(call.pairs) = {}
        /\ \A k \in 1..Len(call.pairs) :
              result.index = k <=> k \in FirstTrue(call.pairs)

C2_Witness ==
    /\ pc = "done"
    /\ call.op = "ifs"
    /\ Len(call.pairs) = 2
    /\ ~call.pairs[1].first
    /\ call.pairs[2].first
    /\ TypeOf(call.pairs[1].second) = TypeOf(call.pairs[2].second)
    /\ TypeOf(call.else_) = TypeOf(call.pairs[2].second)
    /\ result.index = 2

\* C3: fn_if(true, a, b) yields the variant with index 0 holding a, and
\* fn_if(false, a, b) the variant with index 1 holding b, for all types and
\* values of a and b, a and b of the same type included.
C3_IfTagsBranch ==
    (pc \in {"done", "rejected"} /\ call.op = "if") =>
        /\ pc = "done"
        /\ result.kind = "variant"
        /\ result.index = (IF call.condition THEN 0 ELSE 1)
        /\ result.value = (IF call.condition THEN call.then ELSE call.otherwise)

\* all the integers of a call's arguments, in argument order
RECURSIVE Flatten(_)
Flatten(vs) ==
    IF vs = <<>> THEN <<>>
    ELSE (IF TypeOf(Head(vs)) = "int"
          THEN <<Head(vs).i>>
          ELSE [k \in 1..Len(Head(vs).l) |-> Head(vs).l[k].i]) \o Flatten(Tail(vs))

RECURSIVE Total(_)
Total(ns) == IF ns = <<>> THEN 0 ELSE Head(ns) + Total(Tail(ns))

RECURSIVE SumOver(_, _)
SumOver(l, S) ==
    IF S = {} THEN 0
    ELSE LET k == CHOOSE k \in S : TRUE IN l[k].i + SumOver(l, S \ {k})

\* no sum of elements of one list argument, and no running sum after an
\* argument, leaves the range of int
NoOverflow(vs) ==
    /\ \A k \in 1..Len(vs) :
          TypeOf(vs[k]) = "list" =>
              \A S \in SUBSET (1..Len(vs[k].l)) : SumOver(vs[k].l, S) \in IntRange
    /\ \A k \in 1..Len(vs) : Total(Flatten(SubSeq(vs, 1, k))) \in IntRange

\* C4: fn_sum returns the sum of the scalar arguments plus the sum of the
\* elements of the list arguments, as long as no intermediate or final sum
\* leaves the range of int; an empty list adds 0 and no arguments give 0.
C4_SumOfAll ==
    (pc = "done" /\ call.op = "sum" /\ NoOverflow(call.values)) =>
        /\ result.kind = "int"
        /\ result.i = Total(Flatten(call.values))

C4_Witness ==
    /\ pc = "done"
    /\ call.op = "sum"
    /\ Len(call.values) = 2
    /\ TypeOf(call.values[1]) = "int"
    /\ TypeOf(call.values[2]) = "list"
    /\ Len(call.values[2].l) = 2
    /\ NoOverflow(call.values)
    /\ result.i = call.values[1].i + call.values[2].l[1].i + call.values[2].l[2].i
    /\ result.i # 0

\* the values of a fn_lets call in declaration order
Declared(pairs) == [k \in 1..Len(pairs) |-> pairs[k].second]

\* C5: fn_lets invokes the continuation exactly once, only after all N values
\* are bound, with the values in declaration order, and returns its result;
\* the identifiers have no influence.
C5_LetsOnceInOrder ==
    /\ (pc = "bound") =>
          /\ call.op = "lets"
          /\ invoked = 0
          /\ result = NoResult
          /\ values = Declared(call.pairs)
    /\ (pc = "done" /\ call.op = "lets") =>
          /\ invoked = 1
          /\ values = Declared(call.pairs)
          /\ result = Invoke(call.expr, Declared(call.pairs))

C5_Witness ==
    /\ pc = "done"
    /\ call.op = "lets"
    /\ Len(call.pairs) = 2
    /\ call.pairs[1].first = call.pairs[2].first
    /\ call.expr.name = "minus"
    /\ call.pairs[1].second = AnyInt(2)
    /\ call.pairs[2].second = AnyInt(1)
    /\ invoked = 1
    /\ result = Plain(AnyInt(1))

\* C6: for a continuation whose parameter type is the value's type, fn_let
\* invokes it exactly once within the call and returns exactly its result on
\* the value; the identifier does not affect the result.
C6_LetOnce ==
    (/\ pc \in {"done", "rejected"}
     /\ call.op = "let"
     /\ call.expr.params = <<TypeOf(call.value)>>) =>
        /\ pc = "done"
        /\ invoked = 1
        /\ result = Invoke(call.expr, <<call.value>>)

C6_Witness ==
    /\ pc = "done"
    /\ call.op = "let"
    /\ call.var = "x"
    /\ call.value = AnyInt(1)
    /\ call.expr.name = "add_two"
    /\ invoked = 1
    /\ result = Plain(AnyInt(3))

\* C7: fn_length returns the number of code units of a text and the number
\* of top-level elements of a list, whatever the elements are: a nested list
\* counts as one element, the empty text and the empty list give 0.
C7_LengthCounts ==
    (pc = "done" /\ call.op = "length") =>
        /\ result.kind = "int"
        /\ TypeOf(call.value) = "text" =>
              result.i = Cardinality(DOMAIN call.value.s)
        /\ TypeOf(call.value) = "list" =>
              result.i = Cardinality(DOMAIN call.value.l)

C7_Witness ==
    /\ pc = "done"
    /\ call.op = "length"
    /\ call.value = AnyList(<<AnyText(<<"3">>), AnyList(<<AnyInt(1), AnyInt(2)>>)>>)
    /\ result.i = 2

\* C8: every builtin is deterministic and stateless: two invocations of the
\* same operation with equal inputs end the same way with equal results,
\* whatever was invoked before or between them.
C8_Deterministic ==
    \A s \in seen :
        (pc \in {"done", "rejected"} /\ s.call.op = call.op /\ s.call = call) =>
            /\ s.pc = pc
            /\ s.result = result

\* a call whose arguments have a wrong shape
WrongShape(c) ==
    CASE c.op = "sum" ->
            \E k \in 1..Len(c.values) :
                ~(\/ TypeOf(c.values[k]) = "int"
                  \/ /\ TypeOf(c.values[k]) = "list"
                     /\ \A j \in 1..Len(c.values[k].l) : TypeOf(c.values[k].l[j]) = "int")
      [] c.op = "length" -> TypeOf(c.value) \notin {"text", "list"}
      [] c.op = "let" -> c.expr.params # <<TypeOf(c.value)>>
      [] c.op = "lets" ->
            c.expr.params # [k \in 1..Len(c.pairs) |-> TypeOf(c.pairs[k].second)]
      [] OTHER -> FALSE

\* C9: a call with arguments of a wrong shape (a Sum argument that is neither
\* an integer nor a list of integers, a Length argument that is neither text
\* nor list, a Let/Lets continuation whose parameter types disagree with the
\* bound values) is rejected at the call boundary: nothing runs, no
\* continuation is invoked, no result is produced; an accepted call never fails.
C9_WrongShapeRejected ==
    (call.op \in {"sum", "length", "let", "lets"}) =>
        IF WrongShape(call)
        THEN pc = "rejected" /\ invoked = 0 /\ result = NoResult /\ values = <<>>
        ELSE pc # "rejected"

\* the sum with every addition clamped to the range of int
RECURSIVE Saturated(_, _)
Saturated(acc, ns) ==
    IF ns = <<>> THEN acc
    ELSE LET n == acc + Head(ns)
         IN  Saturated(IF n > IntMax THEN IntMax ELSE IF n < IntMin THEN IntMin ELSE n,
                       Tail(ns))

\* C10: when the sum of fn_sum's arguments, or an intermediate sum, falls
\* outside the range of int, fn_sum reports an overflow error or returns the
\* saturated bound; it never returns a wrapped value.
C10_NoSilentWrap ==
    (pc = "done" /\ call.op = "sum" /\ ~NoOverflow(call.values)) =>
        \/ result.kind = "overflow_error"
        \/ result.kind = "int" /\ result.i = Saturated(0, Flatten(call.values))

====
